---- MODULE Spec2Model ----
(***************************************************************************)
(* Model of the concurrent multi-provider evaluation harness of            *)
(* financial-datasets/llm-evaluations:                                     *)
(*   - Experiment.run() of experiments/financials_calculation and          *)
(*     experiments/red_flag_detection (thread pool of five provider        *)
(*     workers, as_completed collection, ExperimentResults),               *)
(*   - the provider workers _call_openai ... _call_deepseek,               *)
(*   - the judges (classification and regression evaluators, ranking).     *)
(*                                                                         *)
(* Numbers: Python floats are modelled as exact rationals plus the IEEE    *)
(* specials inf, -inf and nan; rounding and overflow are not modelled.     *)
(* Costs are integers in units of 1e-8 dollar (tokens times cents per      *)
(* million tokens), so a call's cost is exact.                             *)
(***************************************************************************)
EXTENDS Integers, Sequences, FiniteSets, TLC

VARIABLES
    experiment,          \* which of the two experiments is running
    companies,           \* dataset.get_companies(): the ordered input set
    degraded,            \* backends whose calls / worker environment may fail in this run
    dpc,                 \* position of run(): "init", "collecting", "returned"
    wpc,                 \* wpc[b]: position of worker b
    i,                   \* i[b]: enumerate() counter of worker b (items taken so far)
    predictions,         \* predictions[b]: the worker's local list
    total_cost,          \* total_cost[b]
    total_time,          \* total_time[b]
    future,              \* future[b]: outcome stored in the worker's Future
    results,             \* run()'s local dict provider -> ModelResults | None
    log,                 \* log[b]: what the worker's loop did with each item it took
    experiment_results,  \* the ExperimentResults returned by run() (<<>> before)
    evaluation,          \* the ComparisonResults returned by evaluate() (<<>> before)
    calls,               \* how many times evaluate() has been called on the results
    received,            \* received[b]: the outcome of every backend call worker b issued
    inflight,            \* inflight[b]: backend calls of worker b issued and not yet ended
    paced                \* paced[b]: a time.sleep has ended since worker b's last call was issued

vars == <<experiment, companies, degraded, dpc, wpc, i, predictions, total_cost,
          total_time, future, log, results, experiment_results, evaluation, calls,
          received, inflight, paced>>

(***************************************************************************)
(* Bounds of the model                                                     *)
(***************************************************************************)
MaxItems == 2       \* longest input set
MaxDegraded == 1    \* how many backends may misbehave in one run
MaxTokens == 1      \* token counts reported by a response are 1..MaxTokens
MaxDuration == 1    \* wall-clock duration of a call is 1..MaxDuration
MaxRecords == 4     \* longest prediction list handed to a judge on its own
MaxPairs == 3       \* longest list of regression pairs handed to a judge on its own
MaxEvaluations == 2 \* how many times evaluate() is called on one ExperimentResults

(***************************************************************************)
(* Optional values: None is <<>>, a present value x is <<x>>               *)
(***************************************************************************)
None == <<>>
Some(x) == <<x>>
IsNone(o) == o = <<>>
Get(o) == o[1]

(***************************************************************************)
(* Backends, in the order run() submits them and the judges scan them      *)
(***************************************************************************)
ProviderOrder == <<"openai", "anthropic", "gemini", "kimi", "deepseek">>
Providers == {ProviderOrder[k] : k \in 1..Len(ProviderOrder)}

ModelName(b) ==
    CASE b = "openai" -> "o3"
      [] b = "anthropic" -> "claude-opus-4-20250514"
      [] b = "gemini" -> "gemini-2.5-pro"
      [] b = "kimi" -> "kimi-k2-0711-preview"
      [] b = "deepseek" -> "deepseek-reasoner"

\* price per million tokens, in cents
input_cost_per_million_tokens(b) ==
    CASE b = "openai" -> 250
      [] b = "anthropic" -> 300
      [] b = "gemini" -> 250
      [] b = "kimi" -> 100
      [] b = "deepseek" -> 14

output_cost_per_million_tokens(b) ==
    CASE b = "openai" -> 1000
      [] b = "anthropic" -> 1500
      [] b = "gemini" -> 1000
      [] b = "kimi" -> 300
      [] b = "deepseek" -> 28

\* call_cost = input_cost + output_cost, in units of 1e-8 dollar
CallCost(b, prompt_tokens, completion_tokens) ==
    prompt_tokens * input_cost_per_million_tokens(b)
        + completion_tokens * output_cost_per_million_tokens(b)

(***************************************************************************)
(* The input set.  An item is a dict with a ticker; the dataset layer may  *)
(* deliver it without the fact payload (xbrl_facts / financial_metrics:    *)
(* FinancialDatasetsClient.search returns only ticker and label).  Nothing *)
(* in the dataset layer removes duplicate tickers.                         *)
(***************************************************************************)
Experiments == {"financials_calculation", "red_flag_detection"}
Tickers == {"AAA", "BBB"}
Items == [ticker : Tickers, payload : BOOLEAN]

RECURSIVE SeqsUpTo(_, _)
SeqsUpTo(S, n) ==
    IF n = 0 THEN {<<>>}
    ELSE LET shorter == SeqsUpTo(S, n - 1)
         IN  shorter \cup {Append(s, x) : s \in {t \in shorter : Len(t) = n - 1}, x \in S}

\* tickers are named in order of first appearance: the first item is "AAA"
Datasets == {s \in SeqsUpTo(Items, MaxItems) : s = <<>> \/ s[1].ticker = "AAA"}

(***************************************************************************)
(* Python floats: a finite value is the exact fraction n/d in lowest terms *)
(* (d > 0); inf, -inf and nan are the IEEE specials.  root = TRUE marks    *)
(* math.sqrt of the stored value (only produced by Sqrt, only compared     *)
(* with other roots, where the order of the squares decides).              *)
(***************************************************************************)
RECURSIVE Gcd(_, _)
Gcd(a, b) == IF b = 0 THEN a ELSE Gcd(b, a % b)
Abs(x) == IF x < 0 THEN -x ELSE x
Sign(x) == IF x < 0 THEN -1 ELSE IF x > 0 THEN 1 ELSE 0

Inf == [k |-> "inf", n |-> 0, d |-> 1, root |-> FALSE]
NegInf == [k |-> "ninf", n |-> 0, d |-> 1, root |-> FALSE]
NaN == [k |-> "nan", n |-> 0, d |-> 1, root |-> FALSE]
Frac(n, d) ==
    LET g == Gcd(Abs(n), Abs(d))
        sg == IF d < 0 THEN -1 ELSE 1
    IN  [k |-> "fin", n |-> sg * (n \div g), d |-> sg * (d \div g), root |-> FALSE]
F(n) == Frac(n, 1)

\* a finite float so large that its square is outside the float range (1e200, say);
\* it only ever meets values of ordinary size, which it absorbs
Huge == [k |-> "huge", n |-> 1, d |-> 1, root |-> FALSE]
IsHuge(x) == x.k = "huge"

IsFin(x) == x.k = "fin"
\* math.isinf
IsInf(x) == x.k \in {"inf", "ninf"}
IsNan(x) == x.k = "nan"
\* sign of a non-nan value: -1, 0, 1
FSign(x) == IF x.k = "inf" THEN 1 ELSE IF x.k = "ninf" THEN -1 ELSE Sign(x.n)
SignedInf(sg) == IF sg > 0 THEN Inf ELSE NegInf

FNeg(x) ==
    CASE x.k = "fin" -> Frac(-x.n, x.d)
      [] x.k = "huge" -> [x EXCEPT !.n = -x.n]
      [] x.k = "inf" -> NegInf
      [] x.k = "ninf" -> Inf
      [] OTHER -> NaN
FAbs(x) ==
    CASE x.k = "fin" -> Frac(Abs(x.n), x.d)
      [] x.k \in {"inf", "ninf"} -> Inf
      [] OTHER -> NaN
FAdd(x, y) ==
    CASE IsNan(x) \/ IsNan(y) -> NaN
      [] IsHuge(x) /\ IsFin(y) -> x
      [] IsFin(x) /\ IsHuge(y) -> y
      [] IsFin(x) /\ IsFin(y) -> Frac(x.n * y.d + y.n * x.d, x.d * y.d)
      [] IsInf(x) /\ IsInf(y) -> IF x.k = y.k THEN x ELSE NaN
      [] IsInf(x) -> x
      [] OTHER -> y
FSub(x, y) == FAdd(x, FNeg(y))
FMul(x, y) ==
    CASE IsNan(x) \/ IsNan(y) -> NaN
      [] IsFin(x) /\ IsFin(y) -> Frac(x.n * y.n, x.d * y.d)
      [] FSign(x) * FSign(y) = 0 -> NaN
      [] OTHER -> SignedInf(FSign(x) * FSign(y))
\* x / y for y # 0 (every division of the judges is guarded against a zero divisor)
FDiv(x, y) ==
    CASE IsNan(x) \/ IsNan(y) -> NaN
      [] IsFin(x) /\ IsFin(y) -> Frac(x.n * y.d, x.d * y.n)
      [] IsInf(x) /\ IsInf(y) -> NaN
      [] IsInf(x) -> SignedInf(FSign(x) * FSign(y))
      [] OTHER -> F(0)
\* x < y; every comparison with nan is False
FLt(x, y) ==
    CASE IsNan(x) \/ IsNan(y) -> FALSE
      [] IsFin(x) /\ IsFin(y) -> x.n * y.d < y.n * x.d
      [] x.k = y.k -> FALSE
      [] OTHER -> x.k = "ninf" \/ y.k = "inf"
FLe(x, y) == ~IsNan(x) /\ ~IsNan(y) /\ ~FLt(y, x)
\* x == y and x != y of Python
FEq(x, y) == ~IsNan(x) /\ ~IsNan(y) /\ x = y
FNe(x, y) == ~FEq(x, y)
\* math.sqrt of a non-negative value
Sqrt(x) == IF IsFin(x) THEN [x EXCEPT !.root = TRUE] ELSE x

RECURSIVE FSum(_)
FSum(s) == IF s = <<>> THEN F(0) ELSE FAdd(FSum(SubSeq(s, 1, Len(s) - 1)), s[Len(s)])

\* the ground truth the dataset holds for a ticker
cost_of_revenue(ticker) == IF ticker = "AAA" THEN F(100) ELSE F(0)
label(ticker) == IF ticker = "AAA" THEN "Green Flag" ELSE "Bankruptcy Risk"

\* company.get("cost_of_revenue") / company.get("label") != "Green Flag"
GroundTruth(e, company) ==
    IF e = "financials_calculation" THEN cost_of_revenue(company.ticker)
    ELSE label(company.ticker) # "Green Flag"

(***************************************************************************)
(* What one backend call can do.  "raise": client.call raises;             *)
(* "no_tool": the response holds no tool call; "invalid": the tool-call    *)
(* arguments fail the pydantic output schema; "valid": they pass it.       *)
(***************************************************************************)
Outcomes == {"raise", "no_tool", "invalid", "valid"}

PredictionValues(e) ==
    IF e = "financials_calculation" THEN {F(110)} ELSE {TRUE}

Responses(e) ==
    [outcome : Outcomes, prompt_tokens : 1..MaxTokens, completion_tokens : 1..MaxTokens,
     duration : 1..MaxDuration, value : PredictionValues(e)]

\* the responses backend b may give in this run
ResponsesOf(e, b, bad) ==
    {r \in Responses(e) : b \in bad \/ r.outcome = "valid"}

(***************************************************************************)
(* A provider worker (_call_openai ... _call_deepseek)                     *)
(***************************************************************************)
\* company["ticker"], company["xbrl_facts"] / company["financial_metrics"]: KeyError if absent
HasFields(company) == company.payload

\* CostOfRevenuePredictionResult(...) / LLMPredictionResult(...)
PredictionResult(e, b, company, r) ==
    [ticker |-> company.ticker,
     model |-> ModelName(b),
     prediction |-> r.value,
     ground_truth |-> GroundTruth(e, company),
     cost |-> CallCost(b, r.prompt_tokens, r.completion_tokens),
     duration |-> r.duration]

\* a worker that appends without the schema validation having passed
AppendsUnvalidated(company, r) == r.outcome \in {"valid", "invalid"}

\* does the try body reach predictions.append for this response and item?
Appends(company, r) == r.outcome = "valid"

\* does the try body get past the call (timing and cost accounting done)?
Accounted(r) == r.outcome # "raise"

\* average_cost / average_duration: total / len(predictions) if predictions else 0,
\* kept as the exact fraction <<numerator, denominator>>
Average(total, preds) == IF Len(preds) > 0 THEN <<total, Len(preds)>> ELSE <<0, 1>>

ModelResults(b, preds, cost, time) ==
    [model_provider |-> b,
     model_name |-> ModelName(b),
     predictions |-> preds,
     average_cost |-> Average(cost, preds),
     average_duration |-> Average(time, preds)]

Init ==
    /\ experiment \in Experiments
    /\ companies \in Datasets
    /\ degraded \in {S \in SUBSET Providers : Cardinality(S) <= MaxDegraded}
    /\ dpc = "init"
    /\ wpc = [b \in Providers |-> "idle"]
    /\ i = [b \in Providers |-> 0]
    /\ predictions = [b \in Providers |-> <<>>]
    /\ total_cost = [b \in Providers |-> 0]
    /\ total_time = [b \in Providers |-> 0]
    /\ future = [b \in Providers |-> "pending"]
    /\ log = [b \in Providers |-> <<>>]
    /\ results = <<>>
    /\ experiment_results = None
    /\ evaluation = None
    /\ calls = 0
    /\ received = [b \in Providers |-> <<>>]
    /\ inflight = [b \in Providers |-> 0]
    /\ paced = [b \in Providers |-> FALSE]

\* run(): executor.submit of the five workers
Submit ==
    /\ dpc = "init"
    /\ dpc' = "collecting"
    /\ wpc' = [b \in Providers |-> "loop"]
    /\ UNCHANGED <<experiment, companies, degraded, i, predictions, total_cost,
                   total_time, future, log, results, experiment_results, evaluation, calls,
                   received, inflight, paced>>

\* does the try body raise for this response (the call, or the schema validation)?
Raises(r) == r.outcome \in {"raise", "invalid"}

\* a narrower handler: it lets the call's own exception through
CaughtOnlyValidation(r) == r.outcome # "raise"

\* "except Exception as e": does the except clause catch what the try body raised?
Caught(r) == TRUE

\* a worker that puts the newest record first
PrependRecord(preds, record) == <<record>> \o preds

\* predictions.append(record)
AppendRecord(preds, record) == Append(preds, record)

\* RedFlagDetectionTool defines openai_, anthropic_ and gemini_tool_definition only;
\* FinancialsCalculationTool defines all five.  The tools argument is built inside
\* the try: a missing definition is an AttributeError before the call is made
HasToolDefinition(e, b) ==
    e = "financials_calculation" \/ b \in {"openai", "anthropic", "gemini"}

\* the financials workers open every iteration with time.sleep(1)
SleepsBeforeCall(e) == e = "financials_calculation"

\* every worker ends the try body with time.sleep(1), except the financials kimi worker
SleepsAfterRecord(e, b) == ~(e = "financials_calculation" /\ b = "kimi")

\* one loop iteration: read the item's fields and build the prompt (outside the
\* try: a KeyError escapes the worker); then the try: the call returns or raises,
\* timing and cost are accounted, the tool call is parsed and validated, and the
\* record is appended, or a continue / the except clause ends the iteration
ProcessItem(b) ==
    /\ wpc[b] = "loop"
    /\ i[b] < Len(companies)
    /\ i' = [i EXCEPT ![b] = @ + 1]
    /\ LET company == companies[i[b] + 1] IN
       IF ~HasFields(company)
       THEN /\ wpc' = [wpc EXCEPT ![b] = "done"]
            /\ future' = [future EXCEPT ![b] = "raised"]
            /\ log' = [log EXCEPT ![b] = Append(@, "KeyError")]
            /\ paced' = IF SleepsBeforeCall(experiment)
                        THEN [paced EXCEPT ![b] = TRUE] ELSE paced
            /\ UNCHANGED <<predictions, total_cost, total_time, received>>
       ELSE IF ~HasToolDefinition(experiment, b)
       THEN /\ log' = [log EXCEPT ![b] = Append(@, "AttributeError")]
            /\ paced' = IF SleepsBeforeCall(experiment)
                        THEN [paced EXCEPT ![b] = TRUE] ELSE paced
            /\ UNCHANGED <<wpc, future, predictions, total_cost, total_time, received>>
       ELSE \E r \in ResponsesOf(experiment, b, degraded) :
                 /\ total_time' = IF Accounted(r)
                                  THEN [total_time EXCEPT ![b] = @ + r.duration]
                                  ELSE total_time
                 /\ total_cost' = IF Accounted(r)
                                  THEN [total_cost EXCEPT ![b] = @ + CallCost(b,
                                           r.prompt_tokens, r.completion_tokens)]
                                  ELSE total_cost
                 /\ predictions' = IF Appends(company, r)
                                   THEN [predictions EXCEPT ![b] = AppendRecord(@,
                                            PredictionResult(experiment, b, company, r))]
                                   ELSE predictions
                 /\ log' = [log EXCEPT ![b] = Append(@, r.outcome)]
                 /\ received' = [received EXCEPT ![b] = Append(@, r)]
                 /\ paced' = [paced EXCEPT ![b] =
                                 Appends(company, r) /\ SleepsAfterRecord(experiment, b)]
                 /\ IF ~Raises(r) \/ Caught(r)
                    THEN UNCHANGED <<wpc, future>>
                    ELSE /\ wpc' = [wpc EXCEPT ![b] = "done"]
                         /\ future' = [future EXCEPT ![b] = "raised"]
    /\ UNCHANGED <<experiment, companies, degraded, dpc, results,
                   experiment_results, evaluation, calls, inflight>>

(***************************************************************************)
(* The same loop iteration in the steps a thread takes: the for statement  *)
(* (with the opening sleep), the statements up to the blocking call, the   *)
(* call's end with the handling of the response, and the closing sleep.    *)
(***************************************************************************)
\* for i, company in enumerate(companies, 1): [time.sleep(1)]
TakeItem(b) ==
    /\ wpc[b] = "loop"
    /\ i[b] < Len(companies)
    /\ i' = [i EXCEPT ![b] = @ + 1]
    /\ wpc' = [wpc EXCEPT ![b] = "item"]
    /\ paced' = IF SleepsBeforeCall(experiment) THEN [paced EXCEPT ![b] = TRUE] ELSE paced
    /\ UNCHANGED <<experiment, companies, degraded, dpc, predictions, total_cost,
                   total_time, future, log, results, experiment_results, evaluation,
                   calls, received, inflight>>

\* a worker that hands the call to the backend and goes on to its next item
StartCallDetached(b) ==
    /\ wpc[b] = "item"
    /\ wpc' = [wpc EXCEPT ![b] = "loop"]
    /\ inflight' = [inflight EXCEPT ![b] = @ + 1]
    /\ paced' = [paced EXCEPT ![b] = FALSE]
    /\ UNCHANGED <<experiment, companies, degraded, dpc, i, predictions, total_cost,
                   total_time, future, log, results, experiment_results, evaluation,
                   calls, received>>

\* the field reads, the prompt, and inside the try the tools argument and
\* client.call(...): the thread blocks in the call
StartCall(b) ==
    /\ wpc[b] = "item"
    /\ LET company == companies[i[b]] IN
       IF ~HasFields(company)
       THEN /\ wpc' = [wpc EXCEPT ![b] = "done"]
            /\ future' = [future EXCEPT ![b] = "raised"]
            /\ log' = [log EXCEPT ![b] = Append(@, "KeyError")]
            /\ UNCHANGED <<inflight, paced>>
       ELSE IF ~HasToolDefinition(experiment, b)
       THEN /\ wpc' = [wpc EXCEPT ![b] = "loop"]
            /\ log' = [log EXCEPT ![b] = Append(@, "AttributeError")]
            /\ UNCHANGED <<future, inflight, paced>>
       ELSE /\ wpc' = [wpc EXCEPT ![b] = "calling"]
            /\ inflight' = [inflight EXCEPT ![b] = @ + 1]
            /\ paced' = [paced EXCEPT ![b] = FALSE]
            /\ UNCHANGED <<future, log>>
    /\ UNCHANGED <<experiment, companies, degraded, dpc, i, predictions, total_cost,
                   total_time, results, experiment_results, evaluation, calls, received>>

\* the call returns or raises; the rest of the try body or the except clause runs
EndCall(b) ==
    /\ wpc[b] = "calling"
    /\ LET company == companies[i[b]] IN
       \E r \in ResponsesOf(experiment, b, degraded) :
           /\ total_time' = IF Accounted(r)
                            THEN [total_time EXCEPT ![b] = @ + r.duration]
                            ELSE total_time
           /\ total_cost' = IF Accounted(r)
                            THEN [total_cost EXCEPT ![b] = @ + CallCost(b,
                                     r.prompt_tokens, r.completion_tokens)]
                            ELSE total_cost
           /\ predictions' = IF Appends(company, r)
                             THEN [predictions EXCEPT ![b] = AppendRecord(@,
                                      PredictionResult(experiment, b, company, r))]
                             ELSE predictions
           /\ log' = [log EXCEPT ![b] = Append(@, r.outcome)]
           /\ received' = [received EXCEPT ![b] = Append(@, r)]
           /\ inflight' = [inflight EXCEPT ![b] = @ - 1]
           /\ IF Raises(r) /\ ~Caught(r)
              THEN /\ wpc' = [wpc EXCEPT ![b] = "done"]
                   /\ future' = [future EXCEPT ![b] = "raised"]
              ELSE /\ wpc' = [wpc EXCEPT ![b] =
                                 IF Appends(company, r) /\ SleepsAfterRecord(experiment, b)
                                 THEN "pacing" ELSE "loop"]
                   /\ UNCHANGED future
    /\ UNCHANGED <<experiment, companies, degraded, dpc, i, results,
                   experiment_results, evaluation, calls, paced>>

\* the time.sleep(1) that ends the try body is over
Pace(b) ==
    /\ wpc[b] = "pacing"
    /\ wpc' = [wpc EXCEPT ![b] = "loop"]
    /\ paced' = [paced EXCEPT ![b] = TRUE]
    /\ UNCHANGED <<experiment, companies, degraded, dpc, i, predictions, total_cost,
                   total_time, future, log, results, experiment_results, evaluation,
                   calls, received, inflight>>

\* after the loop: return ModelResults(...)
Return(b) ==
    /\ wpc[b] = "loop"
    /\ i[b] = Len(companies)
    /\ wpc' = [wpc EXCEPT ![b] = "done"]
    /\ future' = [future EXCEPT ![b] = "returned"]
    /\ UNCHANGED <<experiment, companies, degraded, dpc, i, predictions, total_cost,
                   total_time, log, results, experiment_results, evaluation, calls,
                   received, inflight, paced>>

\* an exception raised by the worker's statements before its loop (outside any
\* try) escapes the worker
WorkerFault(b) ==
    /\ wpc[b] = "loop"
    /\ i[b] = 0
    /\ b \in degraded
    /\ wpc' = [wpc EXCEPT ![b] = "done"]
    /\ future' = [future EXCEPT ![b] = "raised"]
    /\ UNCHANGED <<experiment, companies, degraded, dpc, i, predictions, total_cost,
                   total_time, log, results, experiment_results, evaluation, calls,
                   received, inflight, paced>>

\* workers that accumulate cost and time in totals shared by all five
FutureResultSharedTotals(b) ==
    ModelResults(b, predictions[b],
                 total_cost["openai"] + total_cost["anthropic"] + total_cost["gemini"]
                     + total_cost["kimi"] + total_cost["deepseek"],
                 total_time["openai"] + total_time["anthropic"] + total_time["gemini"]
                     + total_time["kimi"] + total_time["deepseek"])

\* what future.result() gives for a finished worker
FutureResult(b) ==
    ModelResults(b, predictions[b], total_cost[b], total_time[b])

\* results.get(provider)
ResultsGet(d, b) == IF b \in DOMAIN d THEN d[b] ELSE None

\* a collection loop without the except clause's None
StoredUnguarded(b) == Some(ModelResults(b, predictions[b], total_cost[b], total_time[b]))

\* try: result = future.result() ... except Exception: results[provider] = None
Stored(b) == IF future[b] = "returned" THEN Some(FutureResult(b)) ELSE None

\* a collection loop that stores a backend's entry without waiting for its worker
CollectEarly(b) ==
    /\ dpc = "collecting"
    /\ b \notin DOMAIN results
    /\ results' = results @@ (b :> Stored(b))
    /\ UNCHANGED <<experiment, companies, degraded, dpc, wpc, i, predictions,
                   total_cost, total_time, future, log, experiment_results, evaluation, calls,
                   received, inflight, paced>>

\* one iteration of "for future in as_completed(future_to_provider)"
Collect(b) ==
    /\ dpc = "collecting"
    /\ wpc[b] = "done"
    /\ b \notin DOMAIN results
    /\ results' = results @@ (b :> Stored(b))
    /\ UNCHANGED <<experiment, companies, degraded, dpc, wpc, i, predictions,
                   total_cost, total_time, future, log, experiment_results, evaluation, calls,
                   received, inflight, paced>>

\* a run() that builds ExperimentResults from whatever has been collected so far
FinishEarly ==
    /\ dpc = "collecting"
    /\ dpc' = "returned"
    /\ experiment_results' = Some([b \in Providers |-> ResultsGet(results, b)])
    /\ UNCHANGED <<experiment, companies, degraded, wpc, i, predictions, total_cost,
                   total_time, future, log, results, evaluation, calls,
                   received, inflight, paced>>

\* as_completed is exhausted, the executor is shut down, ExperimentResults is built
Finish ==
    /\ dpc = "collecting"
    /\ DOMAIN results = Providers
    /\ dpc' = "returned"
    /\ experiment_results' = Some([b \in Providers |-> ResultsGet(results, b)])
    /\ UNCHANGED <<experiment, companies, degraded, wpc, i, predictions, total_cost,
                   total_time, future, log, results, evaluation, calls,
                   received, inflight, paced>>

(***************************************************************************)
(* The judges                                                              *)
(***************************************************************************)
\* a count that looks at the prediction only
CountByPrediction(preds, pred, truth) ==
    Len(SelectSeq(preds, LAMBDA p : p.prediction = pred))

\* sum(1 for p in predictions if ...)
RECURSIVE Count(_, _, _)
Count(preds, pred, truth) ==
    IF preds = <<>> THEN 0
    ELSE Count(Tail(preds), pred, truth)
         + (IF Head(preds).prediction = pred /\ Head(preds).ground_truth = truth
            THEN 1 ELSE 0)

\* a ratio that reports a perfect score when there is nothing to divide by
RatioOrOne(num, den) == IF den > 0 THEN Frac(num, den) ELSE F(1)

\* num / den if den > 0 else 0.0
SafeRatio(num, den) == IF den > 0 THEN Frac(num, den) ELSE F(0)

\* RedFlagDetectionJudge._evaluate_model
ClassificationMetrics(model_results) ==
    LET preds == model_results.predictions
        tp == Count(preds, TRUE, TRUE)
        fp == Count(preds, TRUE, FALSE)
        tn == Count(preds, FALSE, FALSE)
        fn == Count(preds, FALSE, TRUE)
        total == Len(preds)
        correct == tp + tn
        accuracy == SafeRatio(correct, total)
        precision == SafeRatio(tp, tp + fp)
        recall == SafeRatio(tp, tp + fn)
        f1_score == IF FLt(F(0), FAdd(precision, recall))
                    THEN FDiv(FMul(F(2), FMul(precision, recall)), FAdd(precision, recall))
                    ELSE F(0)
    IN  [model_provider |-> model_results.model_provider,
         model_name |-> model_results.model_name,
         total_predictions |-> total,
         correct_predictions |-> correct,
         accuracy |-> accuracy,
         precision |-> precision,
         recall |-> recall,
         f1_score |-> f1_score,
         true_positives |-> tp,
         false_positives |-> fp,
         true_negatives |-> tn,
         false_negatives |-> fn,
         average_cost |-> model_results.average_cost,
         average_duration |-> model_results.average_duration]

\* empty metrics that report zero error for a backend without predictions
EmptyMetricsZeroError(model_results) ==
    [model_provider |-> model_results.model_provider,
     model_name |-> model_results.model_name,
     total_predictions |-> 0,
     mean_absolute_error |-> F(0),
     mean_squared_error |-> F(0),
     root_mean_squared_error |-> F(0),
     mean_absolute_percentage_error |-> F(0),
     r_squared |-> F(0),
     accuracy_within_5_percent |-> F(0),
     accuracy_within_10_percent |-> F(0),
     accuracy_within_20_percent |-> F(0),
     average_cost |-> model_results.average_cost,
     average_duration |-> model_results.average_duration]

\* FinancialsCalculationJudge._empty_metrics
EmptyMetrics(model_results) ==
    [model_provider |-> model_results.model_provider,
     model_name |-> model_results.model_name,
     total_predictions |-> 0,
     mean_absolute_error |-> Inf,
     mean_squared_error |-> Inf,
     root_mean_squared_error |-> Inf,
     mean_absolute_percentage_error |-> Inf,
     r_squared |-> F(0),
     accuracy_within_5_percent |-> F(0),
     accuracy_within_10_percent |-> F(0),
     accuracy_within_20_percent |-> F(0),
     average_cost |-> model_results.average_cost,
     average_duration |-> model_results.average_duration]

\* a comparison that leaves out the pairs lying exactly on the threshold
StrictlyWithinThreshold(pair, threshold) ==
    IF FEq(pair.ground_truth, F(0))
    THEN FEq(pair.prediction, F(0))
    ELSE FLt(FAbs(FDiv(FSub(pair.prediction, pair.ground_truth), pair.ground_truth)),
             threshold)

\* is the pair within the percentage threshold of its ground truth?
WithinThreshold(pair, threshold) ==
    IF FEq(pair.ground_truth, F(0))
    THEN FEq(pair.prediction, F(0))
    ELSE FLe(FAbs(FDiv(FSub(pair.prediction, pair.ground_truth), pair.ground_truth)),
             threshold)

\* a share that counts the pairs outside the threshold
PercentageOutside(valid_pairs, threshold) ==
    IF valid_pairs = <<>> THEN F(0)
    ELSE LET Outside(pair) == ~WithinThreshold(pair, threshold)
             outside_threshold == Len(SelectSeq(valid_pairs, Outside))
         IN  FMul(Frac(outside_threshold, Len(valid_pairs)), F(100))

\* FinancialsCalculationJudge._calculate_percentage_accuracy
PercentageAccuracy(valid_pairs, threshold) ==
    IF valid_pairs = <<>> THEN F(0)
    ELSE LET Within(pair) == WithinThreshold(pair, threshold)
             within_threshold == Len(SelectSeq(valid_pairs, Within))
         IN  FMul(Frac(within_threshold, Len(valid_pairs)), F(100))

\* an R-squared that calls a prediction of constant ground truths a perfect fit
RSquaredPerfectOnConstant(ss_res, ss_tot) ==
    IF FNe(ss_tot, F(0)) THEN FSub(F(1), FDiv(ss_res, ss_tot)) ELSE F(1)

\* r_squared = 1 - (ss_res / ss_tot) if ss_tot != 0 else 0.0
RSquared(ss_res, ss_tot) ==
    IF FNe(ss_tot, F(0)) THEN FSub(F(1), FDiv(ss_res, ss_tot)) ELSE F(0)

\* a MAPE that reports no error when no ground truth is non-zero
ZeroMape == F(0)

\* mape when mape_values is empty: float('inf')
NoDenominatorMape == Inf

\* FinancialsCalculationJudge._evaluate_model (a record always holds both floats, so
\* the None filter keeps every pair)
RegressionMetrics(model_results) ==
    LET valid_pairs == model_results.predictions
        n == Len(valid_pairs)
        AbsErr(pair) == FAbs(FSub(pair.prediction, pair.ground_truth))
        SqErr(pair) == LET e == FSub(pair.prediction, pair.ground_truth) IN FMul(e, e)
        mae == FDiv(FSum([k \in 1..n |-> AbsErr(valid_pairs[k])]), F(n))
        mse == FDiv(FSum([k \in 1..n |-> SqErr(valid_pairs[k])]), F(n))
        rmse == Sqrt(mse)
        NonZero(pair) == FNe(pair.ground_truth, F(0))
        PctErr(pair) == FAbs(FDiv(FSub(pair.prediction, pair.ground_truth), pair.ground_truth))
        nonzero_pairs == SelectSeq(valid_pairs, NonZero)
        mape_values == [k \in 1..Len(nonzero_pairs) |-> PctErr(nonzero_pairs[k])]
        mape == IF Len(mape_values) > 0
                THEN FMul(FDiv(FSum(mape_values), F(Len(mape_values))), F(100))
                ELSE NoDenominatorMape
        Truth(pair) == pair.ground_truth
        y_mean == FDiv(FSum([k \in 1..n |-> Truth(valid_pairs[k])]), F(n))
        TotDev(pair) == LET e == FSub(pair.ground_truth, y_mean) IN FMul(e, e)
        ResDev(pair) == LET e == FSub(pair.ground_truth, pair.prediction) IN FMul(e, e)
        ss_tot == FSum([k \in 1..n |-> TotDev(valid_pairs[k])])
        ss_res == FSum([k \in 1..n |-> ResDev(valid_pairs[k])])
        r_squared == RSquared(ss_res, ss_tot)
    IN  IF valid_pairs = <<>> THEN EmptyMetrics(model_results)
        ELSE [model_provider |-> model_results.model_provider,
              model_name |-> model_results.model_name,
              total_predictions |-> n,
              mean_absolute_error |-> mae,
              mean_squared_error |-> mse,
              root_mean_squared_error |-> rmse,
              mean_absolute_percentage_error |-> mape,
              r_squared |-> r_squared,
              accuracy_within_5_percent |-> PercentageAccuracy(valid_pairs, Frac(5, 100)),
              accuracy_within_10_percent |-> PercentageAccuracy(valid_pairs, Frac(10, 100)),
              accuracy_within_20_percent |-> PercentageAccuracy(valid_pairs, Frac(20, 100)),
              average_cost |-> model_results.average_cost,
              average_duration |-> model_results.average_duration]

\* the backends a judge looks at: the regression judge all five, the
\* classification judge (and its ComparisonResults) only the first three
Judged(e) ==
    IF e = "financials_calculation" THEN Providers ELSE {"openai", "anthropic", "gemini"}

EvaluateModel(e, model_results) ==
    IF e = "financials_calculation" THEN RegressionMetrics(model_results)
    ELSE ClassificationMetrics(model_results)

\* the "if results.<backend>: evaluation_results.<backend> = ..." chain of evaluate()
MetricsOf(e, er) ==
    LET Entry(b) == IF b \in Judged(e) /\ ~IsNone(er[b])
                    THEN Some(EvaluateModel(e, Get(er[b]))) ELSE None
    IN  [openai |-> Entry("openai"),
         anthropic |-> Entry("anthropic"),
         gemini |-> Entry("gemini"),
         kimi |-> Entry("kimi"),
         deepseek |-> Entry("deepseek")]

\* a list that enters every backend the judge looks at, an absent one with value 0
RECURSIVE ModelsListUnfiltered(_, _, _, _)
ModelsListUnfiltered(e, metrics, metric, k) ==
    IF k > Len(ProviderOrder) THEN <<>>
    ELSE LET b == ProviderOrder[k] IN
         (IF b \in Judged(e)
          THEN <<[name |-> b,
                  value |-> IF IsNone(metrics[b]) THEN F(0) ELSE Get(metrics[b])[metric]]>>
          ELSE <<>>)
         \o ModelsListUnfiltered(e, metrics, metric, k + 1)

\* models = [(name, getattr(results.<name>, metric)), ...] in the fixed scan order
RECURSIVE ModelsList(_, _, _, _)
ModelsList(e, metrics, metric, k) ==
    IF k > Len(ProviderOrder) THEN <<>>
    ELSE LET b == ProviderOrder[k] IN
         (IF b \in Judged(e) /\ ~IsNone(metrics[b])
          THEN <<[name |-> b, value |-> Get(metrics[b])[metric]]>> ELSE <<>>)
         \o ModelsList(e, metrics, metric, k + 1)

\* min(models, key=...) / max(models, key=...): the first element no later one beats
RECURSIVE Best(_, _, _)
Best(models, best, lower_is_better) ==
    IF models = <<>> THEN best
    ELSE LET m == Head(models)
             better == IF lower_is_better THEN FLt(m.value, best.value)
                       ELSE FLt(best.value, m.value)
         IN  Best(Tail(models), IF better THEN m ELSE best, lower_is_better)

\* valid_models = [... if not math.isinf(value)] (regression judge only)
NotInfinite(m) == ~IsInf(m.value)

\* _find_best_model_by_metric of either judge
FindBestModelByMetric(e, metrics, metric, lower_is_better) ==
    LET models == ModelsList(e, metrics, metric, 1)
        valid_models == IF e = "financials_calculation"
                        THEN SelectSeq(models, NotInfinite) ELSE models
    IN  IF valid_models = <<>> THEN None
        ELSE Some(Best(Tail(valid_models), Head(valid_models), lower_is_better).name)

\* the ranked metrics of a judge: <<best_* field, metric, lower_is_better>>
Ranked(e) ==
    IF e = "financials_calculation"
    THEN {<<"best_mae_model", "mean_absolute_error", TRUE>>,
          <<"best_rmse_model", "root_mean_squared_error", TRUE>>,
          <<"best_r2_model", "r_squared", FALSE>>,
          <<"best_accuracy_5pct_model", "accuracy_within_5_percent", FALSE>>}
    ELSE {<<"best_accuracy_model", "accuracy", FALSE>>,
          <<"best_f1_model", "f1_score", FALSE>>}

BestFields(e) == {r[1] : r \in Ranked(e)}
RankedMetric(e, field) == (CHOOSE r \in Ranked(e) : r[1] = field)[2]
LowerIsBetter(e, field) == (CHOOSE r \in Ranked(e) : r[1] = field)[3]

\* the second half of evaluate(): the best_* fields are set from the metrics
RankResults(e, metrics) ==
    [metrics |-> metrics,
     best |-> [f \in BestFields(e) |->
                  FindBestModelByMetric(e, metrics, RankedMetric(e, f), LowerIsBetter(e, f))]]

\* evaluate(): per-backend metrics, then the best_* fields
EvaluateResults(e, er) == RankResults(e, MetricsOf(e, er))

\* (pred - true) ** 2 raises OverflowError when the result is out of the float
\* range; nothing in either judge catches it
RegressionRaises(model_results) ==
    \E k \in 1..Len(model_results.predictions) :
        IsHuge(FSub(model_results.predictions[k].prediction,
                    model_results.predictions[k].ground_truth))

EvaluateRaises(e, er) ==
    /\ e = "financials_calculation"
    /\ \E b \in Judged(e) : ~IsNone(er[b]) /\ RegressionRaises(Get(er[b]))

\* what a call of evaluate() that raised leaves in place of a ComparisonResults
Raised == <<[exception |-> "OverflowError"]>>

\* a judge that consumes the prediction lists it is given
AfterEvaluateConsumed(er) ==
    [b \in Providers |->
        IF IsNone(er[b]) THEN None ELSE Some([Get(er[b]) EXCEPT !.predictions = <<>>])]

\* the ExperimentResults after evaluate(): the judges only read their argument
AfterEvaluate(er) == er

\* judge.evaluate(results) on what run() returned; it may be called again
Evaluate ==
    /\ dpc = "returned"
    /\ calls < MaxEvaluations
    /\ calls' = calls + 1
    /\ IF EvaluateRaises(experiment, Get(experiment_results))
       THEN evaluation' = Raised
       ELSE \E metrics \in {MetricsOf(experiment, Get(experiment_results))} :
                evaluation' = Some(RankResults(experiment, metrics))
    /\ experiment_results' = Some(AfterEvaluate(Get(experiment_results)))
    /\ UNCHANGED <<experiment, companies, degraded, dpc, wpc, i, predictions, total_cost,
                   total_time, future, log, results, received, inflight, paced>>

(***************************************************************************)
(* Properties of the harness                                               *)
(***************************************************************************)
SlotOf(b) == Get(experiment_results)[b]
Returned(b) == wpc[b] = "done" /\ future[b] = "returned"
TickersOf(s) == [k \in 1..Len(s) |-> s[k].ticker]
Range(s) == {s[k] : k \in 1..Len(s)}

RECURSIVE IsSubsequence(_, _)
IsSubsequence(s, t) ==
    IF s = <<>> THEN TRUE
    ELSE IF t = <<>> THEN FALSE
    ELSE IF Head(s) = Head(t) THEN IsSubsequence(Tail(s), Tail(t))
    ELSE IsSubsequence(s, Tail(t))

\* the items of the input set the worker's log marks with one of the outcomes
RECURSIVE ItemsLogged(_, _, _)
ItemsLogged(items, lg, outcomes) ==
    IF lg = <<>> THEN <<>>
    ELSE (IF Head(lg) \in outcomes THEN <<Head(items)>> ELSE <<>>)
         \o ItemsLogged(Tail(items), Tail(lg), outcomes)

\* C1: when run() has returned, every backend's slot is exactly the ModelResults
\* its own worker returned, and it is None if and only if that worker raised,
\* whatever the other workers did.
C1_SlotIsOwnWorkersResult ==
    dpc = "returned" =>
        \A b \in Providers :
            /\ future[b] \in {"returned", "raised"}
            /\ future[b] = "returned" =>
                   SlotOf(b) = Some(ModelResults(b, predictions[b], total_cost[b], total_time[b]))
            /\ IsNone(SlotOf(b)) <=> future[b] = "raised"

\* run() has returned; one worker raised while another returned records
C1_Witness ==
    /\ dpc = "returned"
    /\ \E b, c \in Providers :
          /\ future[b] = "raised" /\ IsNone(SlotOf(b))
          /\ future[c] = "returned" /\ Len(Get(SlotOf(c)).predictions) = MaxItems

\* C2 (as claimed): a failure that concerns a single item never stops the loop: a
\* worker that took at least one item ends by returning, after visiting every item.
C2_LoopNeverStopsEarly ==
    \A b \in Providers :
        (wpc[b] = "done" /\ log[b] # <<>>) =>
            (future[b] = "returned" /\ Len(log[b]) = Len(companies))

\* full outage of backend b: its call raised on every item of a non-empty input
\* set, while every other backend answered every item with a valid tool call
Outage(b) ==
    /\ companies # <<>>
    /\ Len(log[b]) = Len(companies)
    /\ Range(log[b]) = {"raise"}
    /\ \A c \in Providers \ {b} : Len(log[c]) = Len(companies) /\ Range(log[c]) = {"valid"}

\* C3 (as claimed): a backend whose call raised on every item, the others
\* succeeding on every item, has an absent slot when run() has returned.
C3_OutageSlotAbsent ==
    dpc = "returned" => \A b \in Providers : Outage(b) => IsNone(SlotOf(b))

\* C3 (amended): after such an outage the failing backend's slot is present and
\* holds zero records with both averages 0; the other slots hold one record per item.
C3_OutageSlotEmpty ==
    dpc = "returned" =>
        \A b \in Providers : Outage(b) =>
            /\ SlotOf(b) = Some(ModelResults(b, <<>>, 0, 0))
            /\ Get(SlotOf(b)).average_cost = <<0, 1>>
            /\ \A c \in Providers \ {b} :
                  /\ ~IsNone(SlotOf(c))
                  /\ TickersOf(Get(SlotOf(c)).predictions) = TickersOf(companies)

\* run() has returned after a full outage of one backend on a longest input set
C3_Witness ==
    /\ dpc = "returned"
    /\ Len(companies) = MaxItems
    /\ \E b \in Providers : Outage(b) /\ ~IsNone(SlotOf(b))

\* C4 (as claimed): every record of a returned worker references a dispatched
\* item, and no two records of one backend carry the same ticker.
C4_RecordsReferenceDistinctItems ==
    \A b \in Providers : Returned(b) =>
        /\ Range(TickersOf(predictions[b])) \subseteq Range(TickersOf(companies))
        /\ \A j, k \in 1..Len(predictions[b]) :
              j # k => predictions[b][j].ticker # predictions[b][k].ticker

\* C5: at every moment a worker's record tickers are an order-preserving
\* subsequence of the input sequence: exactly the items whose response validated,
\* in input order.
C5_RecordsInInputOrder ==
    \A b \in Providers :
        /\ IsSubsequence(TickersOf(predictions[b]), TickersOf(companies))
        /\ TickersOf(predictions[b]) = TickersOf(ItemsLogged(companies, log[b], {"valid"}))

\* a returned worker holds records for two different items, in input order
C5_Witness ==
    \E b \in Providers :
        /\ Returned(b)
        /\ Len(predictions[b]) = 2
        /\ predictions[b][1].ticker # predictions[b][2].ticker

\* sum(p.<field> for p in predictions)
RECURSIVE SumOf(_, _)
SumOf(preds, field) ==
    IF preds = <<>> THEN 0 ELSE Head(preds)[field] + SumOf(Tail(preds), field)

\* is the fraction avg the arithmetic mean of the field over the records (0 if none)?
IsMeanOf(avg, preds, field) ==
    IF preds = <<>> THEN avg = <<0, 1>>
    ELSE avg[1] * Len(preds) = SumOf(preds, field) * avg[2]

\* C8 (as claimed): the averages of a returned ModelResults are the means of the
\* cost and duration fields of its records (0 when it has none), also when some
\* items were called and then skipped.
C8_AveragesAreRecordMeans ==
    \A b \in Providers : Returned(b) =>
        /\ IsMeanOf(FutureResult(b).average_cost, predictions[b], "cost")
        /\ IsMeanOf(FutureResult(b).average_duration, predictions[b], "duration")

\* the step is an iteration of worker b that ended without a tool call or with
\* a validation failure
SkippedStep(b) ==
    /\ Len(log'[b]) = Len(log[b]) + 1
    /\ log'[b][Len(log'[b])] \in {"no_tool", "invalid"}

\* C9: an iteration whose response holds no tool call, or whose arguments fail
\* validation, adds no record and leaves the worker in its loop with the next
\* item (if any) to take; both are accounted alike, and the number of records
\* is always the number of validated responses.
C9_SkipAndContinue ==
    [][\A b \in Providers :
          /\ SkippedStep(b) =>
                /\ predictions'[b] = predictions[b]
                /\ wpc'[b] = "loop" /\ future'[b] = "pending"
                /\ i'[b] = i[b] + 1
                /\ total_time'[b] > total_time[b] /\ total_cost'[b] > total_cost[b]
          /\ Len(predictions'[b]) = Len(ItemsLogged(companies, log'[b], {"valid"}))]_vars

\* a worker returned after one item without a tool call and one failing validation
C9_Witness ==
    \E b \in Providers :
        /\ Returned(b)
        /\ log[b] = <<"no_tool", "invalid">>
        /\ predictions[b] = <<>>

(***************************************************************************)
(* Properties of the judges                                                *)
(***************************************************************************)
Evaluated == ~IsNone(evaluation) /\ evaluation # Raised
Metrics(b) == Get(evaluation).metrics[b]
BestOf(field) == Get(evaluation).best[field]

\* C6 (as claimed): after evaluate(), a backend named by a best_* field has a
\* finite value (neither infinite nor NaN) for the metric that field ranks.
C6_BestIsFinite ==
    Evaluated =>
        \A f \in BestFields(experiment) :
            ~IsNone(BestOf(f)) =>
                IsFin(Get(Metrics(Get(BestOf(f))))[RankedMetric(experiment, f)])

\* C7 (as claimed): after evaluate(), a backend has a metrics entry exactly when
\* its slot in ExperimentResults is present, for each of the five backends.
C7_OneEntryPerPresentBackend ==
    Evaluated =>
        \A b \in Providers : IsNone(Metrics(b)) <=> IsNone(SlotOf(b))

InUnitInterval(x) == FLe(F(0), x) /\ FLe(x, F(1))

\* C10: the classification evaluator's four counts add up to total_predictions
\* (the number of records), and accuracy, precision, recall and f1 lie in [0, 1].
C10_CountsAndRatesConsistent ==
    (Evaluated /\ experiment = "red_flag_detection") =>
        \A b \in Providers : ~IsNone(Metrics(b)) =>
            LET m == Get(Metrics(b)) IN
            /\ m.true_positives + m.false_positives + m.true_negatives + m.false_negatives
                   = m.total_predictions
            /\ m.total_predictions = Len(Get(SlotOf(b)).predictions)
            /\ InUnitInterval(m.accuracy)
            /\ InUnitInterval(m.precision)
            /\ InUnitInterval(m.recall)
            /\ InUnitInterval(m.f1_score)

\* a result set with a record of each kind: every rate strictly between 0 and 1
C10_Witness ==
    /\ Evaluated
    /\ experiment = "red_flag_detection"
    /\ ~IsNone(Metrics("openai"))
    /\ LET m == Get(Metrics("openai")) IN
          /\ m.true_positives = 1 /\ m.false_positives = 1
          /\ m.true_negatives = 1 /\ m.false_negatives = 1
          /\ m.f1_score = Frac(1, 2)

\* the number of records with this prediction and this ground truth
PairCount(preds, pred, truth) ==
    Cardinality({k \in 1..Len(preds) :
                    preds[k].prediction = pred /\ preds[k].ground_truth = truth})

\* the <<prediction, ground truth>> pairs of a record list
PairsOf(preds) == [k \in 1..Len(preds) |-> <<preds[k].prediction, preds[k].ground_truth>>]

\* Scenario A: predictions [T,T,F,F] against ground truth [T,F,F,F]
ScenarioA == <<<<TRUE, TRUE>>, <<TRUE, FALSE>>, <<FALSE, FALSE>>, <<FALSE, FALSE>>>>

\* C11: the classification evaluator's tp/fp/tn/fn are the pairwise counts, and
\* accuracy = (tp+tn)/total, precision = tp/(tp+fp), recall = tp/(tp+fn),
\* f1 = 2*precision*recall/(precision+recall) (= 2tp/(2tp+fp+fn)), each 0 when
\* its denominator is 0; Scenario A gives 1, 1, 2, 0 and 3/4, 1/2, 1, 2/3.
C11_ClassificationFormulas ==
    (Evaluated /\ experiment = "red_flag_detection") =>
        \A b \in Providers : ~IsNone(Metrics(b)) =>
            LET m == Get(Metrics(b))
                preds == Get(SlotOf(b)).predictions
                tp == PairCount(preds, TRUE, TRUE)
                fp == PairCount(preds, TRUE, FALSE)
                tn == PairCount(preds, FALSE, FALSE)
                fn == PairCount(preds, FALSE, TRUE)
            IN  /\ m.true_positives = tp /\ m.false_positives = fp
                /\ m.true_negatives = tn /\ m.false_negatives = fn
                /\ m.accuracy = (IF Len(preds) = 0 THEN F(0) ELSE Frac(tp + tn, Len(preds)))
                /\ m.precision = (IF tp + fp = 0 THEN F(0) ELSE Frac(tp, tp + fp))
                /\ m.recall = (IF tp + fn = 0 THEN F(0) ELSE Frac(tp, tp + fn))
                /\ m.f1_score = (IF tp = 0 THEN F(0) ELSE Frac(2 * tp, 2 * tp + fp + fn))
                /\ PairsOf(preds) = ScenarioA =>
                      /\ <<tp, fp, tn, fn>> = <<1, 1, 2, 0>>
                      /\ m.accuracy = Frac(3, 4) /\ m.precision = Frac(1, 2)
                      /\ m.recall = F(1) /\ m.f1_score = Frac(2, 3)

\* the evaluator has run on Scenario A
C11_Witness ==
    /\ Evaluated
    /\ experiment = "red_flag_detection"
    /\ ~IsNone(SlotOf("openai"))
    /\ PairsOf(Get(SlotOf("openai")).predictions) = ScenarioA
    /\ Get(Metrics("openai")).f1_score = Frac(2, 3)

(***************************************************************************)
(* Properties of the regression evaluator                                  *)
(***************************************************************************)
Regression == Evaluated /\ experiment = "financials_calculation"

\* the mean of a non-empty list of terms
Mean(terms) == FDiv(FSum(terms), F(Len(terms)))

AbsoluteError(pair) == FAbs(FSub(pair.prediction, pair.ground_truth))
SquaredError(pair) == FMul(FSub(pair.prediction, pair.ground_truth),
                           FSub(pair.prediction, pair.ground_truth))

\* the square of a value produced by Sqrt
SquareOfRoot(x) == IF IsFin(x) THEN [x EXCEPT !.root = FALSE] ELSE FMul(x, x)

\* the <<prediction, ground truth>> values of Scenario B: (110,100), (90,100)
ScenarioB == <<<<F(110), F(100)>>, <<F(90), F(100)>>>>

\* C12 (as claimed): with at least one valid pair, mae = mean(|pred-true|),
\* mse = mean((pred-true)^2), rmse = sqrt(mse), rmse >= 0 and mse == rmse^2;
\* Scenario B gives mae=10, mse=100, rmse=10, mape=10, 100 within 10% and 0 within 5%.
C12_ErrorMetrics ==
    Regression =>
        \A b \in Providers : (~IsNone(Metrics(b)) /\ Get(SlotOf(b)).predictions # <<>>) =>
            LET m == Get(Metrics(b))
                pairs == Get(SlotOf(b)).predictions
            IN  /\ m.mean_absolute_error = Mean([k \in 1..Len(pairs) |-> AbsoluteError(pairs[k])])
                /\ m.mean_squared_error = Mean([k \in 1..Len(pairs) |-> SquaredError(pairs[k])])
                /\ m.root_mean_squared_error = Sqrt(m.mean_squared_error)
                /\ FLe(F(0), m.root_mean_squared_error)
                /\ FEq(m.mean_squared_error, SquareOfRoot(m.root_mean_squared_error))
                /\ PairsOf(pairs) = ScenarioB =>
                      /\ m.mean_absolute_error = F(10)
                      /\ m.mean_squared_error = F(100)
                      /\ m.root_mean_squared_error = Sqrt(FMul(F(10), F(10)))
                      /\ m.mean_absolute_percentage_error = F(10)
                      /\ m.accuracy_within_10_percent = F(100)
                      /\ m.accuracy_within_5_percent = F(0)

\* the pairs of a list whose ground truth is not zero
NonZeroTruth(pairs) == SelectSeq(pairs, LAMBDA pair : pair.ground_truth # F(0))

PercentageError(pair) ==
    FDiv(FAbs(FSub(pair.prediction, pair.ground_truth)), FAbs(pair.ground_truth))

\* C13: MAPE is 100 times the mean of |pred-true|/|true| over the pairs with a
\* non-zero ground truth only, and +infinity when there is no such pair; the
\* single pair (5, 0) gives mape = +inf and accuracy within 5% = 0.
C13_MapeSkipsZeroTruth ==
    Regression =>
        \A b \in Providers : (~IsNone(Metrics(b)) /\ Get(SlotOf(b)).predictions # <<>>) =>
            LET m == Get(Metrics(b))
                pairs == Get(SlotOf(b)).predictions
                nz == NonZeroTruth(pairs)
            IN  /\ m.mean_absolute_percentage_error =
                      (IF nz = <<>> THEN Inf
                       ELSE FMul(Mean([k \in 1..Len(nz) |-> PercentageError(nz[k])]), F(100)))
                /\ PairsOf(pairs) = <<<<F(5), F(0)>>>> =>
                      /\ m.mean_absolute_percentage_error = Inf
                      /\ m.accuracy_within_5_percent = F(0)

\* a result set mixing a zero and a non-zero ground truth: only (110, 100) counts
C13_Witness ==
    /\ Regression
    /\ ~IsNone(SlotOf("openai"))
    /\ PairsOf(Get(SlotOf("openai")).predictions) = <<<<F(5), F(0)>>, <<F(110), F(100)>>>>
    /\ Get(Metrics("openai")).mean_absolute_percentage_error = F(10)

\* the match rule of the accuracy-within-k metrics, k a percentage
Matches(pair, k) ==
    \/ pair.ground_truth = F(0) /\ pair.prediction = F(0)
    \/ /\ pair.ground_truth # F(0)
       /\ FLe(PercentageError(pair), Frac(k, 100))

MatchShare(pairs, k) ==
    Frac(100 * Cardinality({j \in 1..Len(pairs) : Matches(pairs[j], k)}), Len(pairs))

\* C14: accuracy within 5/10/20% is 100 times the fraction of the valid pairs that
\* match, a pair matching iff both values are zero or the ground truth is non-zero
\* and |pred-true|/|true| <= k; a relative error equal to the threshold matches and
\* a zero ground truth with a non-zero prediction never does.
C14_AccuracyWithinThreshold ==
    Regression =>
        \A b \in Providers : (~IsNone(Metrics(b)) /\ Get(SlotOf(b)).predictions # <<>>) =>
            LET m == Get(Metrics(b))
                pairs == Get(SlotOf(b)).predictions
            IN  /\ m.accuracy_within_5_percent = MatchShare(pairs, 5)
                /\ m.accuracy_within_10_percent = MatchShare(pairs, 10)
                /\ m.accuracy_within_20_percent = MatchShare(pairs, 20)
                /\ PairsOf(pairs) = <<<<F(105), F(100)>>>> => m.accuracy_within_5_percent = F(100)
                /\ PairsOf(pairs) = <<<<F(110), F(100)>>>> =>
                      /\ m.accuracy_within_5_percent = F(0)
                      /\ m.accuracy_within_10_percent = F(100)
                /\ PairsOf(pairs) = <<<<F(120), F(100)>>>> =>
                      /\ m.accuracy_within_10_percent = F(0)
                      /\ m.accuracy_within_20_percent = F(100)
                /\ PairsOf(pairs) = <<<<F(5), F(0)>>>> => m.accuracy_within_20_percent = F(0)
                /\ PairsOf(pairs) = <<<<F(0), F(0)>>>> => m.accuracy_within_5_percent = F(100)

\* a pair on the 5% boundary, a zero pair and a non-zero guess of a zero truth:
\* two of the three match
C14_Witness ==
    /\ Regression
    /\ ~IsNone(SlotOf("openai"))
    /\ PairsOf(Get(SlotOf("openai")).predictions) =
           <<<<F(105), F(100)>>, <<F(0), F(0)>>, <<F(5), F(0)>>>>
    /\ Get(Metrics("openai")).accuracy_within_5_percent = Frac(200, 3)

\* the mean of the ground truths of a list of pairs
TruthMean(pairs) == Mean([k \in 1..Len(pairs) |-> pairs[k].ground_truth])

\* total sum of squares of the ground truths around their mean
SsTot(pairs) ==
    FSum([k \in 1..Len(pairs) |->
             LET dev == FSub(pairs[k].ground_truth, TruthMean(pairs)) IN FMul(dev, dev)])

\* residual sum of squares
SsRes(pairs) ==
    FSum([k \in 1..Len(pairs) |->
             LET res == FSub(pairs[k].ground_truth, pairs[k].prediction) IN FMul(res, res)])

\* all ground truths of the list are the same value
ConstantTruth(pairs) ==
    \A j, k \in 1..Len(pairs) : pairs[j].ground_truth = pairs[k].ground_truth

EmptySlot(b) == ~IsNone(SlotOf(b)) /\ Get(SlotOf(b)).predictions = <<>>

\* C16: a present result set without predictions gets, from the classification
\* judge, every metric and count 0, and from the regression judge MAE = MSE = RMSE
\* = MAPE = +infinity, r_squared 0, accuracy within 5/10/20% 0 and
\* total_predictions 0.
C16_EmptyPredictionsSentinels ==
    Evaluated =>
        \A b \in Providers : (EmptySlot(b) /\ ~IsNone(Metrics(b))) =>
            LET m == Get(Metrics(b))
            IN  /\ m.total_predictions = 0
                /\ experiment = "red_flag_detection" =>
                      /\ m.correct_predictions = 0
                      /\ m.true_positives = 0 /\ m.false_positives = 0
                      /\ m.true_negatives = 0 /\ m.false_negatives = 0
                      /\ m.accuracy = F(0) /\ m.precision = F(0)
                      /\ m.recall = F(0) /\ m.f1_score = F(0)
                /\ experiment = "financials_calculation" =>
                      /\ m.mean_absolute_error = Inf
                      /\ m.mean_squared_error = Inf
                      /\ m.root_mean_squared_error = Inf
                      /\ m.mean_absolute_percentage_error = Inf
                      /\ m.r_squared = F(0)
                      /\ m.accuracy_within_5_percent = F(0)
                      /\ m.accuracy_within_10_percent = F(0)
                      /\ m.accuracy_within_20_percent = F(0)

\* the regression judge has evaluated a present backend without predictions
C16_Witness ==
    /\ Regression
    /\ EmptySlot("gemini")
    /\ ~IsNone(Metrics("gemini"))
    /\ Get(Metrics("gemini")).mean_absolute_error = Inf

\* the backends with a metrics entry whose value for the metric is finite
FiniteEntries(metric) ==
    {b \in Providers : ~IsNone(Metrics(b)) /\ IsFin(Get(Metrics(b))[metric])}

\* no backend of the set has a better value of the metric than b
Extremal(b, among, metric, lower_is_better) ==
    \A o \in among :
        IF lower_is_better THEN FLe(Get(Metrics(b))[metric], Get(Metrics(o))[metric])
        ELSE FLe(Get(Metrics(o))[metric], Get(Metrics(b))[metric])

\* C17 (as claimed): the regression judge's ranking of a metric looks only at the
\* present backends with a finite value, names one with the minimum (MAE, RMSE) or
\* maximum (R-squared, accuracy) among them, and is None when none is finite.
C17_BestIsExtremumOfFinite ==
    Regression =>
        \A f \in BestFields(experiment) :
            LET metric == RankedMetric(experiment, f)
                finite == FiniteEntries(metric)
            IN  /\ IsNone(BestOf(f)) <=> finite = {}
                /\ ~IsNone(BestOf(f)) =>
                      /\ Get(BestOf(f)) \in finite
                      /\ Extremal(Get(BestOf(f)), finite, metric,
                                  LowerIsBetter(experiment, f))

C19_EvaluateNeverRaises ==
    calls >= 1 =>
        /\ evaluation # Raised
        /\ ~IsNone(evaluation)
        /\ (\A b \in Providers : IsNone(SlotOf(b))) =>
              /\ \A b \in Providers : IsNone(Metrics(b))
              /\ \A f \in BestFields(experiment) : IsNone(BestOf(f))

\* the variables local to one worker
Locals(b) == <<wpc[b], i[b], predictions[b], total_cost[b], total_time[b], future[b], log[b]>>
LocalsNext(b) ==
    <<wpc'[b], i'[b], predictions'[b], total_cost'[b], total_time'[b], future'[b], log'[b]>>

\* C20: the workers share nothing they write: a worker's step changes that worker's
\* locals only and leaves the item list and the result collection alone; the
\* collection changes only by gaining one key that it did not hold, the key of a
\* worker that has completed, with the entries already written left as they were;
\* and when run() returns every backend's key has been written.
C20_EachKeyWrittenOnceAfterCompletion ==
    [][/\ companies' = companies
       /\ dpc = "collecting" =>
             \A b \in Providers : LocalsNext(b) # Locals(b) =>
                 /\ results' = results
                 /\ \A c \in Providers \ {b} : LocalsNext(c) = Locals(c)
       /\ results' # results =>
             \E b \in Providers :
                 /\ b \notin DOMAIN results
                 /\ wpc[b] = "done"
                 /\ DOMAIN results' = DOMAIN results \cup {b}
                 /\ \A c \in DOMAIN results : results'[c] = results[c]
       /\ dpc' = "returned" => DOMAIN results' = Providers]_vars

\* a key has been written while another worker is still in its loop, past its
\* first item
C20_Witness ==
    /\ dpc = "collecting"
    /\ \E b, c \in Providers :
          /\ b \in DOMAIN results /\ ~IsNone(results[b])
          /\ c \notin DOMAIN results /\ wpc[c] = "loop" /\ i[c] > 0

\* C21: run() builds and returns ExperimentResults only when all five workers
\* have terminated (returned or raised): at that moment no worker is running, and
\* afterwards no worker does anything and the ExperimentResults stay as built.
C21_JoinBarrier ==
    [][/\ dpc' = "returned" =>
             \A b \in Providers : wpc'[b] = "done" /\ future'[b] \in {"returned", "raised"}
       /\ dpc = "returned" =>
             /\ experiment_results' = experiment_results
             /\ \A b \in Providers : LocalsNext(b) = Locals(b)]_vars

\* run() has returned: a worker went through a longest input set, another raised
\* before its first item
C21_Witness ==
    /\ dpc = "returned"
    /\ ~IsNone(experiment_results)
    /\ \E b, c \in Providers :
          /\ Len(log[b]) = MaxItems /\ future[b] = "returned"
          /\ log[c] = <<>> /\ future[c] = "raised"

\* C22: a backend never has two calls in flight: a worker issues the call for an
\* item only when none of its calls is in flight and every item it took before has
\* been handled to the end of its iteration; the calls of different backends
\* are not ordered against each other.
C22_OneCallInFlightPerBackend ==
    [][\A b \in Providers :
          /\ inflight'[b] \in {0, 1}
          /\ inflight'[b] > inflight[b] =>
                /\ inflight[b] = 0
                /\ Len(log[b]) = i[b] - 1
                /\ Len(received[b]) <= i[b] - 1]_vars

\* two backends have a call in flight at once, for different items, one of them
\* for its second call
C22_Witness ==
    \E b, c \in Providers :
        /\ inflight[b] = 1 /\ inflight[c] = 1
        /\ i[b] = 1 /\ i[c] = 2
        /\ Len(received[c]) = 1

\* every item of the input set holds the fields a worker reads
AllItemsComplete == \A k \in 1..Len(companies) : HasFields(companies[k])

\* C23 (as claimed): in both experiments each of the five workers, when it has
\* returned, has issued exactly one backend call per item of the input set, and
\* holds a record for every item whose call returned a schema-valid tool call.
C23_OneCallPerItem ==
    AllItemsComplete =>
        \A b \in Providers : Returned(b) =>
            /\ Len(received[b]) = Len(companies)
            /\ Len(predictions[b]) =
                   Len(SelectSeq(received[b], LAMBDA r : r.outcome = "valid"))

\* C24 (as claimed): when a worker issues a backend call after an earlier one, a
\* pacing delay of that worker has ended since the earlier call was issued, whatever
\* the earlier call's outcome; and the end of a worker's delay changes nothing of
\* the other workers.
C24_PacedBetweenCalls ==
    [][\A b \in Providers :
          /\ (inflight'[b] > inflight[b] /\ received[b] # <<>>) => paced[b]
          /\ (paced'[b] /\ ~paced[b]) =>
                \A c \in Providers \ {b} :
                    wpc'[c] = wpc[c] /\ inflight'[c] = inflight[c] /\ paced'[c] = paced[c]]_vars

\* the backends holding the best finite value of the metric
ExtremalEntries(metric, lower_is_better) ==
    {b \in FiniteEntries(metric) :
        Extremal(b, FiniteEntries(metric), metric, lower_is_better)}

\* the first backend of the set in the fixed scan order
FirstInOrder(among) ==
    ProviderOrder[CHOOSE k \in 1..Len(ProviderOrder) :
                     /\ ProviderOrder[k] \in among
                     /\ \A j \in 1..(k - 1) : ProviderOrder[j] \notin among]

\* C25 (as claimed): when several present backends share the best finite value of
\* a ranked metric, the best_* field names the first of them in the order openai,
\* anthropic, gemini, kimi, deepseek, for min-type and max-type metrics alike.
C25_TieGoesToFirstInOrder ==
    Evaluated =>
        \A f \in BestFields(experiment) :
            LET tied == ExtremalEntries(RankedMetric(experiment, f),
                                        LowerIsBetter(experiment, f))
            IN  Cardinality(tied) >= 2 => BestOf(f) = Some(FirstInOrder(tied))

\* C26 (as claimed): with every call returning or raising and the workers
\* scheduled fairly, every worker eventually has consumed the whole input set and
\* returned its ModelResults, and run() eventually returns.
C26_EveryWorkerReturns ==
    /\ \A b \in Providers : <>(Returned(b) /\ i[b] = Len(companies))
    /\ <>(dpc = "returned")

\* one worker run on its own over the items, given the outcomes of its calls in
\* the order it issues them: the slot run() ends up with
RECURSIVE Replay(_, _, _, _, _, _, _)
Replay(e, b, items, resps, preds, cost, time) ==
    IF items = <<>> THEN Some(ModelResults(b, preds, cost, time))
    ELSE IF ~HasFields(Head(items)) THEN None
    ELSE IF ~HasToolDefinition(e, b)
    THEN Replay(e, b, Tail(items), resps, preds, cost, time)
    ELSE LET r == Head(resps) IN
         Replay(e, b, Tail(items), Tail(resps),
                IF r.outcome = "valid"
                THEN Append(preds, PredictionResult(e, b, Head(items), r)) ELSE preds,
                IF r.outcome = "raise" THEN cost
                ELSE cost + CallCost(b, r.prompt_tokens, r.completion_tokens),
                IF r.outcome = "raise" THEN time ELSE time + r.duration)

\* the worker's task raised before it took an item
FaultedBeforeLoop(b) == future[b] = "raised" /\ log[b] = <<>>

\* C27: the entry run() collects for a backend, and the slot it returns, is what
\* that backend's worker yields on its own from the input set and the outcomes of
\* its own calls, in whatever order the five workers ran and completed.
C27_ResultIndependentOfInterleaving ==
    \A b \in Providers :
        LET alone == IF FaultedBeforeLoop(b) THEN None
                     ELSE Replay(experiment, b, companies, received[b], <<>>, 0, 0)
        IN  /\ b \in DOMAIN results => results[b] = alone
            /\ dpc = "returned" => SlotOf(b) = alone

\* run() has returned; the first backend's calls ended differently from the
\* others', which all returned a record per item
C27_Witness ==
    /\ dpc = "returned"
    /\ Len(companies) = MaxItems
    /\ log["openai"] = <<"invalid", "valid">>
    /\ Len(Get(SlotOf("openai")).predictions) = 1
    /\ \A b \in Providers \ {"openai"} :
          ~IsNone(SlotOf(b)) /\ Len(Get(SlotOf(b)).predictions) = MaxItems

\* C28: after evaluate(), every best_* field is None or names one of the five
\* backends whose metrics entry in the same ComparisonResults is present, and so a
\* backend present in the ExperimentResults.
C28_BestNamesEvaluatedBackend ==
    Evaluated =>
        \A f \in BestFields(experiment) :
            \/ IsNone(BestOf(f))
            \/ /\ Get(BestOf(f)) \in Providers
               /\ ~IsNone(Metrics(Get(BestOf(f))))
               /\ ~IsNone(SlotOf(Get(BestOf(f))))

\* the first backend in scan order is absent, a later one is named best, and
\* another best_* field of the same result is None
C28_Witness ==
    /\ Evaluated
    /\ IsNone(SlotOf("openai"))
    /\ \E f, g \in BestFields(experiment) :
          /\ ~IsNone(BestOf(f)) /\ Get(BestOf(f)) # "openai"
          /\ IsNone(BestOf(g))

\* C29 (as claimed): a backend whose result set holds no prediction is named by
\* no best_* field, of either judge.
C29_EmptyBackendNeverBest ==
    Evaluated =>
        \A b \in Providers : EmptySlot(b) =>
            \A f \in BestFields(experiment) : BestOf(f) # Some(b)

\* C30: for every result set the regression judge evaluates,
\* 0 <= accuracy within 5% <= within 10% <= within 20% <= 100, and
\* total_predictions is the number of (prediction, ground truth) pairs the
\* metrics were computed from.
C30_AccuraciesOrdered ==
    Regression =>
        \A b \in Providers : ~IsNone(Metrics(b)) =>
            LET m == Get(Metrics(b)) IN
            /\ FLe(F(0), m.accuracy_within_5_percent)
            /\ FLe(m.accuracy_within_5_percent, m.accuracy_within_10_percent)
            /\ FLe(m.accuracy_within_10_percent, m.accuracy_within_20_percent)
            /\ FLe(m.accuracy_within_20_percent, F(100))
            /\ m.total_predictions = Len(Get(SlotOf(b)).predictions)

\* three pairs, each within one more threshold than the one before
C30_Witness ==
    /\ Regression
    /\ ~IsNone(SlotOf("openai"))
    /\ PairsOf(Get(SlotOf("openai")).predictions) =
           <<<<F(120), F(100)>>, <<F(110), F(100)>>, <<F(105), F(100)>>>>
    /\ Get(Metrics("openai")).accuracy_within_5_percent = Frac(100, 3)
    /\ Get(Metrics("openai")).accuracy_within_10_percent = Frac(200, 3)
    /\ Get(Metrics("openai")).accuracy_within_20_percent = F(100)
    /\ Get(Metrics("openai")).total_predictions = 3


Next ==
    \/ Submit
    \/ \E b \in Providers : ProcessItem(b)
    \/ \E b \in Providers : Return(b)
    \/ \E b \in Providers : WorkerFault(b)
    \/ \E b \in Providers : Collect(b)
    \/ Finish
    \/ Evaluate

Spec == Init /\ [][Next]_vars

(***************************************************************************)
(* run() with every worker taken statement group by statement group        *)
(***************************************************************************)
\* the input sets of the stepwise runs: tickers alternate and only the last item
\* may come without its fact payload
StepDatasets ==
    {d \in Datasets : \A k \in 1..(Len(d) - 1) :
                          d[k].payload /\ d[k].ticker # d[k + 1].ticker}

\* in the stepwise runs the backend whose calls may fail is the first one
InitSteps ==
    /\ Init
    /\ companies \in StepDatasets
    /\ degraded = {ProviderOrder[1]}

NextSteps ==
    \/ Submit
    \/ \E b \in Providers : TakeItem(b)
    \/ \E b \in Providers : StartCall(b)
    \/ \E b \in Providers : EndCall(b)
    \/ \E b \in Providers : Pace(b)
    \/ \E b \in Providers : Return(b)
    \/ \E b \in Providers : WorkerFault(b)
    \/ \E b \in Providers : Collect(b)
    \/ Finish

SpecSteps == InitSteps /\ [][NextSteps]_vars

(***************************************************************************)
(* run() under fair scheduling: the pool runs every submitted worker, a    *)
(* thread that can take its next statement does, a call that was issued    *)
(* returns or raises, and the collecting thread is scheduled as well.      *)
(* Nothing forces a fault before the loop.                                  *)
(***************************************************************************)
\* run() and its workers, without the judge
NextRun ==
    \/ Submit
    \/ \E b \in Providers : ProcessItem(b)
    \/ \E b \in Providers : Return(b)
    \/ \E b \in Providers : WorkerFault(b)
    \/ \E b \in Providers : Collect(b)
    \/ Finish

Fairness ==
    /\ WF_vars(Submit)
    /\ \A b \in Providers : WF_vars(ProcessItem(b))
    /\ \A b \in Providers : WF_vars(Return(b))
    /\ \A b \in Providers : WF_vars(Collect(b))
    /\ WF_vars(Finish)

\* the fair runs take the input sets shorter than the longest
InitFair ==
    /\ InitSteps
    /\ Len(companies) < MaxItems

FairSpec == InitFair /\ [][NextRun]_vars /\ Fairness

(***************************************************************************)
(* The judges on their own: evaluate() is a pure function of the           *)
(* ExperimentResults it is given, so a second specification starts from a   *)
(* returned run() whose slots are drawn from a catalogue of ModelResults    *)
(* (the harness variables are at rest) and applies the judge.               *)
(***************************************************************************)
\* values a validated tool call can carry: float accepts nan and inf, bool both values
JudgeValues(e) ==
    IF e = "financials_calculation" THEN {F(100), F(110), NaN, Inf} ELSE {TRUE, FALSE}

\* the values of the record family: also the threshold boundaries, zero, a
\* small value against a zero ground truth, and a value whose error overflows
PairValues(e) ==
    IF e = "financials_calculation"
    THEN JudgeValues(e) \cup {F(0), F(5), F(90), F(105), F(120), Huge}
    ELSE JudgeValues(e)

\* the record a worker appends for an item and a validated value, at unit usage
JudgeRecord(e, b, ticker, value) ==
    PredictionResult(e, b, [ticker |-> ticker, payload |-> TRUE],
                     [outcome |-> "valid", prompt_tokens |-> 1, completion_tokens |-> 1,
                      duration |-> 1, value |-> value])

\* what a worker returns after appending exactly these records
ReturnedWith(b, preds) ==
    ModelResults(b, preds, Len(preds) * CallCost(b, 1, 1), Len(preds))

\* a slot of the ranking family: absent, empty, or one record on the first ticker
SlotChoices(e) == {<<"absent">>, <<"empty">>} \cup {<<"one", v>> : v \in JudgeValues(e)}

Slot(e, b, choice) ==
    CASE choice[1] = "absent" -> None
      [] choice[1] = "empty" -> Some(ReturnedWith(b, <<>>))
      [] OTHER -> Some(ReturnedWith(b, <<JudgeRecord(e, b, "AAA", choice[2])>>))

\* the first backend's slot of the record family: up to MaxRecords records
\* (up to MaxPairs for the regression judge, whose values are many)
RecordLists(e, b) ==
    SeqsUpTo({JudgeRecord(e, b, t, v) : t \in Tickers, v \in PairValues(e)},
             IF e = "financials_calculation" THEN MaxPairs ELSE MaxRecords)

\* the ExperimentResults of the ranking family: one slot choice per backend
RankingInput(e, c) == [b \in Providers |-> Slot(e, b, c[b])]

\* the ExperimentResults of the record family: only the first backend is present
RecordInput(e, preds) ==
    [b \in Providers |-> IF b = "openai" THEN Some(ReturnedWith(b, preds)) ELSE None]

InitJudge ==
    /\ experiment \in Experiments
    /\ \/ \E c \in [Providers -> SlotChoices(experiment)] :
              experiment_results = Some(RankingInput(experiment, c))
       \/ \E preds \in RecordLists(experiment, "openai") :
              experiment_results = Some(RecordInput(experiment, preds))
    /\ companies = <<>>
    /\ degraded = {}
    /\ dpc = "returned"
    /\ wpc = [b \in Providers |-> "done"]
    /\ i = [b \in Providers |-> 0]
    /\ predictions = [b \in Providers |-> <<>>]
    /\ total_cost = [b \in Providers |-> 0]
    /\ total_time = [b \in Providers |-> 0]
    /\ future = [b \in Providers |-> "returned"]
    /\ log = [b \in Providers |-> <<>>]
    /\ results = <<>>
    /\ evaluation = None
    /\ calls = 0
    /\ received = [b \in Providers |-> <<>>]
    /\ inflight = [b \in Providers |-> 0]
    /\ paced = [b \in Providers |-> FALSE]

NextJudge == Evaluate

SpecJudge == InitJudge /\ [][NextJudge]_vars

====
